---- MODULE Spec2Model ----
(***************************************************************************)
(* PyLempelZiv (lempel-ziv-77.py): the LZ77 encoder and decoder of class   *)
(* LempelZiv, with the match finder longest_substring and the bit-level    *)
(* token format.  Bytes are integers 0..255, byte strings are sequences of *)
(* bytes, a bitarray is a sequence of bits 0/1 (big-endian).  Offsets and  *)
(* slice indices are Python's (0-based); PySlice does the translation.     *)
(***************************************************************************)
EXTENDS Integers, Sequences, FiniteSets

VARIABLES
    self_lookahead_size,   \* self.lookahead_size
    self_window_size,      \* self.window_size (the effective capacity)
    self_max_copy_length,  \* self.max_copy_length
    pc,                    \* position of the run
    infile,                \* content of the file at inPath
    filepos,               \* read position of the open input file
    bitarr,                \* encode's bitarr
    window_buffer,         \* encode's window_buffer
    lookahead_buffer,      \* encode's lookahead_buffer
    lookahead_size,        \* encode's local lookahead_size
    match,                 \* last value returned by longest_substring
    tokens,                \* make_literal / make_pointer calls completed so far
    compressed,            \* bytes written to outPath by encode
    dbitarr,               \* decode's bitarr
    outBuffer,             \* decode's outBuffer
    counter,               \* decode's loop counter
    outFile,               \* text decode wrote to outFile (code points)
    err                    \* exception that ended the run ("" if none)

vars == <<self_lookahead_size, self_window_size, self_max_copy_length, pc,
          infile, filepos, bitarr, window_buffer, lookahead_buffer,
          lookahead_size, match, tokens, compressed, dbitarr, outBuffer,
          counter, outFile, err>>

(***************************************************************************)
(* Bounds of the model and the sets the inputs are drawn from.             *)
(***************************************************************************)
MaxBody == 5
MaxWin == 3
MaxStr == 2
MaxDist == 3
MaxCopy == 5

Alphabet == {97, 98}
\* input bodies with bytes above 127: "b\xffa" and a cut-off sequence are not
\* UTF-8, "b\xc3\xa9a" is
BinaryBodies == {<<98, 255, 97>>, <<98, 97, 195>>, <<98, 195, 169, 97>>}
\* bytes of hand-made compressed files: ASCII, the two bytes of U+00E9, 0xff
DecodeAlphabet == {97, 195, 169, 255}
MatchAlphabet == {97, 98, 99}
LookaheadSizes == {-2, -1, 1, 2, 16}
WindowSizes == {100, 256}
FillLens == {0, 254}
TailLens == {0, 18}

SeqsUpTo(S, n) == UNION {[1..k -> S] : k \in 0..n}
Fill(n) == [i \in 1..n |-> 97]

Min(a, b) == IF a < b THEN a ELSE b
Max(a, b) == IF a > b THEN a ELSE b

(***************************************************************************)
(* Python slicing s[start:stop] on a sequence, negative indices included.  *)
(***************************************************************************)
PyIndex(n, i) ==
    IF i < 0 THEN (IF i + n < 0 THEN 0 ELSE i + n)
    ELSE (IF i > n THEN n ELSE i)

PySlice(s, start, stop) ==
    SubSeq(s, PyIndex(Len(s), start) + 1, PyIndex(Len(s), stop))

PyFrom(s, start) == PySlice(s, start, Len(s))
PyTo(s, stop) == PySlice(s, 0, stop)

(***************************************************************************)
(* matching_characters(s1, s2): the number of leading positions at which   *)
(* s1 and s2 agree, by the source's recursion on the two tails.            *)
(* The source recurses once per agreeing position, so the value is that of *)
(* the code for arguments agreeing on fewer positions than the             *)
(* interpreter's recursion limit (1000 frames by default), beyond which    *)
(* Python raises RecursionError; the lookaheads drawn here have at most 16 *)
(* bytes.                                                                  *)
(***************************************************************************)
RECURSIVE matching_characters(_, _)
matching_characters(s1, s2) ==
    IF s1 # <<>> /\ s2 # <<>> /\ Head(s1) = Head(s2)
    THEN 1 + matching_characters(Tail(s1), Tail(s2))
    ELSE 0

(***************************************************************************)
(* LempelZiv.__init__: the fields computed from the requested sizes.       *)
(***************************************************************************)
max_window_size == 255
length_field_max == 15
pointer_bits == 13
literal_bits == 9

Construct(req_lookahead_size, req_window_size) ==
    [lookahead_size  |-> req_lookahead_size,
     window_size     |-> Max(max_window_size, req_window_size),
     max_copy_length |-> Min(length_field_max, req_lookahead_size)]

(***************************************************************************)
(* max(matches, key = lambda x: x[1]) over the generator                   *)
(* (i, matching_characters(window[i:], string)), i in range(window_size):  *)
(* the scan keeps the first pair whose length is strictly greater than     *)
(* every earlier one.  An empty range raises ValueError, caught as (0, 0). *)
(***************************************************************************)
\* The scan over offsets i..n-1 in increasing order, started from `best`.  The
\* range is split in two so that the evaluation nests only log(n) deep (the
\* test on the first half's result only makes it evaluated before the second
\* half starts).
RECURSIVE MaxByLength(_, _, _, _, _)
MaxByLength(window, string, i, n, best) ==
    IF i >= n THEN best
    ELSE IF n - i = 1
         THEN LET m == matching_characters(PyFrom(window, i), string)
              IN  IF m > best[2] THEN <<i, m>> ELSE best
         ELSE LET mid   == i + ((n - i) \div 2)
                  first == MaxByLength(window, string, i, mid, best)
              IN  IF first[2] >= 0
                  THEN MaxByLength(window, string, mid, n, first)
                  ELSE first

\* Mutant: the scan starts at offset 1 (range(1, window_size)).
longest_substring_from1(window_size, window, string) ==
    IF window_size <= 0 THEN <<0, 0>>
    ELSE MaxByLength(window, string, 1, window_size, <<0, 0>>)

longest_substring(window_size, window, string) ==
    IF window_size <= 0 THEN <<0, 0>>
    ELSE MaxByLength(window, string, 1, window_size,
                     <<0, matching_characters(PyFrom(window, 0), string)>>)

(***************************************************************************)
(* Bit-level conversions of the bitarray package and of int.               *)
(***************************************************************************)
Pow2(k) == 2 ^ k

\* (char).to_bytes(1, 'big') then bitarr.frombytes: 8 bits, most significant first
ByteToBits(b) == [i \in 1..8 |-> (b \div Pow2(8 - i)) % 2]

\* bitarr.frombytes / fromfile: the bits of every byte, in order
frombytes(bytes) ==
    [k \in 1..(8 * Len(bytes)) |->
        ByteToBits(bytes[((k - 1) \div 8) + 1])[((k - 1) % 8) + 1]]

\* bitarr.fill(): zero bits up to the next multiple of 8
fill(bits) == bits \o [i \in 1..((8 - (Len(bits) % 8)) % 8) |-> 0]

\* value of a big-endian bit string: int.from_bytes of one byte, length_decode
RECURSIVE BitsValue(_, _)
BitsValue(bits, total) ==
    IF bits = <<>> THEN total
    ELSE BitsValue(Tail(bits), total * 2 + Head(bits))

\* bitarr.tobytes(): whole bytes, the last one padded with zero bits
BytesOfFilled(bits) ==
    [k \in 1..(Len(bits) \div 8) |-> BitsValue(SubSeq(bits, 8 * k - 7, 8 * k), 0)]

tobytes(bits) == BytesOfFilled(fill(bits))

\* int.from_bytes(bytes, 'big')
RECURSIVE from_bytes(_, _)
from_bytes(bytes, total) ==
    IF bytes = <<>> THEN total
    ELSE from_bytes(Tail(bytes), total * 256 + Head(bytes))

\* bin(n)[2:] as bits, for n >= 0
RECURSIVE BinDigits(_)
BinDigits(n) ==
    IF n < 2 THEN <<n>> ELSE BinDigits(n \div 2) \o <<n % 2>>

length_decode(copy_length) == BitsValue(copy_length, 0)

(***************************************************************************)
(* make_literal, make_pointer (with its lengther), literal_map.            *)
(***************************************************************************)
make_literal(arr, char) == (arr \o <<0>>) \o ByteToBits(char)

lengther(arr, copy_length) ==
    LET values == BinDigits(copy_length)
        pad    == 4 - Len(values)
    IN  (arr \o [p \in 1..pad |-> 0]) \o values

\* (copy_distance).to_bytes(1, 'big') raises OverflowError outside 0..255
FitsByte(n) == n >= 0 /\ n <= 255

make_pointer(arr, copy_distance, copy_length) ==
    lengther((arr \o <<1>>) \o ByteToBits(copy_distance), copy_length)

\* for byte in bytestring: make_literal(bitarr, byte): the 9 bits that
\* make_literal appends for each byte, in order, after arr
literal_map(arr, bytestring) ==
    arr \o [k \in 1..(literal_bits * Len(bytestring)) |->
               make_literal(<<>>, bytestring[((k - 1) \div literal_bits) + 1])
                           [((k - 1) % literal_bits) + 1]]

Literal(byte) == <<"Literal", byte>>
Pointer(distance, length) == <<"Pointer", distance, length>>
LiteralsOf(bytestring) == [i \in 1..Len(bytestring) |-> Literal(bytestring[i])]

(***************************************************************************)
(* The input file object: file.read(n) from the current position.  A     *)
(* length of -1 reads to the end of the file; any other negative length    *)
(* raises ValueError and leaves the position where it was.                 *)
(***************************************************************************)
Read(content, pos, n) ==
    IF n < -1 THEN [raised |-> "ValueError", data |-> <<>>]
    ELSE IF n = -1
         THEN [raised |-> "", data |-> SubSeq(content, pos + 1, Len(content))]
         ELSE [raised |-> "",
               data |-> SubSeq(content, pos + 1, Min(pos + n, Len(content)))]

InputFiles ==
    {(Fill(f) \o body) \o Fill(t) :
        f \in FillLens, body \in SeqsUpTo(Alphabet, MaxBody) \cup BinaryBodies,
        t \in TailLens}

(***************************************************************************)
(* State after LempelZiv(lookahead_size, window_size) is constructed and   *)
(* before encode(inPath, outPath) is called on some input file.            *)
(***************************************************************************)
Init ==
    /\ \E l \in LookaheadSizes, w \in WindowSizes :
          /\ self_lookahead_size = Construct(l, w).lookahead_size
          /\ self_window_size = Construct(l, w).window_size
          /\ self_max_copy_length = Construct(l, w).max_copy_length
    /\ infile \in InputFiles
    /\ pc = "constructed"
    /\ filepos = 0
    /\ bitarr = <<>>
    /\ window_buffer = <<>>
    /\ lookahead_buffer = <<>>
    /\ lookahead_size = 0
    /\ match = <<0, 0>>
    /\ tokens = <<>>
    /\ compressed = <<>>
    /\ dbitarr = <<>>
    /\ outBuffer = <<>>
    /\ counter = 0
    /\ outFile = <<>>
    /\ err = ""

(***************************************************************************)
(* encode, lines 188-196: open the input, read the first window_size bytes *)
(* into the window and emit each of them as a literal.                     *)
(***************************************************************************)
EncodeOpen ==
    /\ pc = "constructed"
    /\ LET first == Read(infile, 0, self_window_size).data
       IN  /\ window_buffer' = first
           /\ filepos' = Len(first)
           /\ bitarr' = literal_map(<<>>, first)
           /\ tokens' = LiteralsOf(first)
    /\ lookahead_buffer' = <<>>
    /\ lookahead_size' = 0
    /\ pc' = "loop"
    /\ UNCHANGED <<self_lookahead_size, self_window_size, self_max_copy_length,
                   infile, match, compressed, dbitarr, outBuffer, counter,
                   outFile, err>>

(***************************************************************************)
(* encode, lines 204-226, as values: the refill of the lookahead, the      *)
(* match, its conversion to (copy_distance, copy_length), the token and    *)
(* the slide of both buffers.  When the read of line 204 raises, nothing   *)
(* is assigned: buffer, size and position stay as they were.               *)
(***************************************************************************)
Refill(content, pos, buffer, size, capacity) ==
    LET read == Read(content, pos, capacity - size)
        out == read.data
    IN  [raised |-> read.raised,
         buffer |-> IF out # <<>> THEN buffer \o out ELSE buffer,
         size   |-> IF out # <<>> THEN capacity ELSE size,
         pos    |-> pos + Len(out)]

CopyDistance(window_size, m) == window_size - m[1]
CopyLength(m, max_copy_length) == Min(m[2], max_copy_length)

\* Mutant: the window drops one byte whatever was consumed.
SlideWindow_drop1(window, lookahead, copy_length) ==
    PyFrom(window, 1) \o PyTo(lookahead, copy_length)

SlideWindow(window, lookahead, copy_length) ==
    PyFrom(window, copy_length) \o PyTo(lookahead, copy_length)

SlideLookahead(lookahead, copy_length) == PyFrom(lookahead, copy_length)

\* line 229: the stop condition of the loop
StopCondition(lookahead) == lookahead = <<>>

(***************************************************************************)
(* One iteration of encode's while loop (lines 199-234).  It ends the run  *)
(* with ValueError when file.read is given a length below -1 (line 204,    *)
(* before anything else is done), with IndexError when lookahead_buffer[0] is read from an empty buffer   *)
(* (line 219) and with OverflowError when copy_distance does not fit the   *)
(* one byte of to_bytes (line 99, after the flag bit was appended); on the *)
(* stop condition it pads the bitarray and writes the output file.         *)
(***************************************************************************)
EncodeIteration ==
    /\ pc = "loop"
    /\ \E r \in {Refill(infile, filepos, lookahead_buffer, lookahead_size,
                        self_lookahead_size)} :
       IF r.raised # ""
       THEN /\ pc' = "failed"
            /\ err' = r.raised
            /\ UNCHANGED <<filepos, match, bitarr, window_buffer,
                           lookahead_buffer, lookahead_size, tokens, compressed>>
       ELSE
       \E m \in {longest_substring(self_window_size, window_buffer, r.buffer)} :
       LET copy_distance == CopyDistance(self_window_size, m)
           clamped == CopyLength(m, self_max_copy_length)
           copy_length == IF clamped > 1 THEN clamped ELSE 1
           raised == IF clamped > 1
                     THEN (IF FitsByte(copy_distance) THEN "" ELSE "OverflowError")
                     ELSE (IF r.buffer = <<>> THEN "IndexError" ELSE "")
           emitted == IF clamped > 1
                      THEN make_pointer(bitarr, copy_distance, copy_length)
                      ELSE make_literal(bitarr, r.buffer[1])
           rest == SlideLookahead(r.buffer, copy_length)
       IN  /\ filepos' = r.pos
           /\ match' = m
           /\ err' = raised
           /\ IF raised # ""
              THEN /\ pc' = "failed"
                   /\ bitarr' = IF raised = "OverflowError"
                                THEN bitarr \o <<1>> ELSE bitarr
                   /\ lookahead_buffer' = r.buffer
                   /\ lookahead_size' = r.size
                   /\ UNCHANGED <<window_buffer, tokens, compressed>>
              ELSE /\ tokens' = Append(tokens,
                                   IF clamped > 1
                                   THEN Pointer(copy_distance, copy_length)
                                   ELSE Literal(r.buffer[1]))
                   /\ window_buffer' = SlideWindow(window_buffer, r.buffer, copy_length)
                   /\ lookahead_buffer' = rest
                   /\ lookahead_size' = r.size - copy_length
                   /\ IF StopCondition(rest)
                      THEN /\ bitarr' = fill(emitted)
                           /\ compressed' = tobytes(fill(emitted))
                           /\ pc' = "done"
                      ELSE /\ bitarr' = emitted
                           /\ compressed' = compressed
                           /\ pc' = "loop"
    /\ UNCHANGED <<self_lookahead_size, self_window_size, self_max_copy_length,
                   infile, dbitarr, outBuffer, counter, outFile>>

(***************************************************************************)
(* decode, lines 280-299.  One pass of the while loop on (bitarr,          *)
(* outBuffer): a literal consumes 9 bits, a pointer 13; the copy is the    *)
(* slice of lines 293-297.                                                 *)
(***************************************************************************)
(***************************************************************************)
(* outBuffer.decode('utf-8') (line 302), strict: the byte string is a run  *)
(* of well-formed sequences of 1 to 4 bytes (no overlong form, no          *)
(* surrogate, nothing above U+10FFFF), else UnicodeDecodeError.  Stated    *)
(* per lead byte: its sequence is complete and well formed, and the byte   *)
(* after it is not one more continuation byte.                             *)
(***************************************************************************)
IsContinuation(b) == b >= 128 /\ b <= 191

SequenceLength(b) ==
    IF b <= 127 THEN 1
    ELSE IF b >= 194 /\ b <= 223 THEN 2
    ELSE IF b >= 224 /\ b <= 239 THEN 3
    ELSE IF b >= 240 /\ b <= 244 THEN 4
    ELSE 0

SecondByteOk(lead, b) ==
    IF lead = 224 THEN b >= 160 /\ b <= 191
    ELSE IF lead = 237 THEN b >= 128 /\ b <= 159
    ELSE IF lead = 240 THEN b >= 144 /\ b <= 191
    ELSE IF lead = 244 THEN b >= 128 /\ b <= 143
    ELSE IsContinuation(b)

WellFormedAt(bytes, i) ==
    LET n == SequenceLength(bytes[i])
    IN  /\ n >= 1
        /\ i + n - 1 <= Len(bytes)
        /\ n >= 2 => SecondByteOk(bytes[i], bytes[i + 1])
        /\ \A j \in (i + 2)..(i + n - 1) : IsContinuation(bytes[j])
        /\ i + n <= Len(bytes) => ~IsContinuation(bytes[i + n])

ValidUtf8(bytes) ==
    /\ bytes # <<>> => ~IsContinuation(bytes[1])
    /\ \A i \in 1..Len(bytes) :
          ~IsContinuation(bytes[i]) => WellFormedAt(bytes, i)

CodePointAt(bytes, i) ==
    LET n == SequenceLength(bytes[i])
        c(j) == bytes[i + j] - 128
    IN  IF n = 1 THEN bytes[i]
        ELSE IF n = 2 THEN (bytes[i] - 192) * 64 + c(1)
        ELSE IF n = 3 THEN (bytes[i] - 224) * 4096 + c(1) * 64 + c(2)
        ELSE (bytes[i] - 240) * 262144 + c(1) * 4096 + c(2) * 64 + c(3)

\* the text of a valid byte string: one code point per lead byte
utf8_decode(bytes) ==
    LET IsLead(i) == ~IsContinuation(bytes[i])
        leads == SelectSeq([i \in 1..Len(bytes) |-> i], IsLead)
    IN  [k \in 1..Len(leads) |-> CodePointAt(bytes, leads[k])]

\* Mutant: the loop runs while any bit is left.
LoopCondition_any(bits) == Len(bits) >= 1

LoopCondition(bits) == Len(bits) >= literal_bits

copy_string(out, copy_distance, copy_length) ==
    IF copy_distance = copy_length
    THEN PyFrom(out, 0 - copy_distance)
    ELSE PySlice(out, 0 - copy_distance, (0 - copy_distance) + copy_length)

DecodeStep(bits, out) ==
    IF bits[1] = 0
    THEN [bits |-> SubSeq(bits, literal_bits + 1, Len(bits)),
          out  |-> out \o tobytes(PySlice(bits, 1, 9))]
    ELSE LET copy_distance == from_bytes(tobytes(PySlice(bits, 1, 9)), 0)
             copy_length   == length_decode(PySlice(bits, 9, 13))
         IN  [bits |-> SubSeq(bits, pointer_bits + 1, Len(bits)),
              out  |-> out \o copy_string(out, copy_distance, copy_length)]

\* One pass of the loop if its condition holds, counted as the code counts it.
DecodePass(st) ==
    IF LoopCondition(st.bits)
    THEN LET n == DecodeStep(st.bits, st.out)
         IN  [bits |-> n.bits, out |-> n.out, counter |-> st.counter + 1]
    ELSE st

\* At most k passes, split in two so that the evaluation nests only log(k)
\* deep (the test on the first half's result only makes it evaluated before
\* the second half starts).
RECURSIVE DecodePasses(_, _)
DecodePasses(st, k) ==
    IF k <= 0 THEN st
    ELSE IF k = 1 THEN DecodePass(st)
    ELSE LET first == DecodePasses(st, k \div 2)
         IN  IF first.counter >= 0
             THEN DecodePasses(first, k - (k \div 2))
             ELSE first

\* The while loop run to its end: every pass consumes at least 9 bits, so
\* the loop makes at most Len(bits) / 9 passes.
DecodeLoop(bits, out, count) ==
    DecodePasses([bits |-> bits, out |-> out, counter |-> count],
                 (Len(bits) \div literal_bits) + 1)

(***************************************************************************)
(* decode(inFile, outFile) on the file encode wrote: the whole pass.  The   *)
(* output file is opened (and so emptied) before outBuffer.decode('utf-8') *)
(* is evaluated at line 302; bytes that are not UTF-8 raise                *)
(* UnicodeDecodeError and leave it empty.                                  *)
(***************************************************************************)
Decode ==
    /\ pc = "done"
    /\ \E r \in {DecodeLoop(frombytes(compressed), <<>>, 0)} :
          /\ dbitarr' = r.bits
          /\ outBuffer' = r.out
          /\ counter' = r.counter
          /\ IF ValidUtf8(r.out)
             THEN /\ outFile' = utf8_decode(r.out)
                  /\ pc' = "decoded"
                  /\ err' = err
             ELSE /\ outFile' = <<>>
                  /\ pc' = "failed"
                  /\ err' = "UnicodeDecodeError"
    /\ UNCHANGED <<self_lookahead_size, self_window_size, self_max_copy_length,
                   infile, filepos, bitarr, window_buffer, lookahead_buffer,
                   lookahead_size, match, tokens, compressed>>

Next == EncodeOpen \/ EncodeIteration \/ Decode

Spec == Init /\ [][Next]_vars

(***************************************************************************)
(* decode, step by step, on an arbitrary compressed file: a few literals   *)
(* followed by one pointer and one more literal.                           *)
(***************************************************************************)
CompressedFiles ==
    {tobytes(fill(make_literal(
                    make_pointer(literal_map(<<>>, head), d, l), last))) :
        head \in [1..MaxDist -> DecodeAlphabet], d \in 1..MaxDist,
        l \in 1..MaxCopy, last \in DecodeAlphabet}

InitDec ==
    /\ \E l \in LookaheadSizes, w \in WindowSizes :
          /\ self_lookahead_size = Construct(l, w).lookahead_size
          /\ self_window_size = Construct(l, w).window_size
          /\ self_max_copy_length = Construct(l, w).max_copy_length
    /\ compressed \in CompressedFiles
    /\ pc = "done"
    /\ infile = <<>>
    /\ filepos = 0
    /\ bitarr = <<>>
    /\ window_buffer = <<>>
    /\ lookahead_buffer = <<>>
    /\ lookahead_size = 0
    /\ match = <<0, 0>>
    /\ tokens = <<>>
    /\ dbitarr = <<>>
    /\ outBuffer = <<>>
    /\ counter = 0
    /\ outFile = <<>>
    /\ err = ""

\* lines 273-278: read the whole file into the bitarray
DecodeOpen ==
    /\ pc = "done"
    /\ dbitarr' = frombytes(compressed)
    /\ outBuffer' = <<>>
    /\ counter' = 0
    /\ pc' = "decoding"
    /\ UNCHANGED <<self_lookahead_size, self_window_size, self_max_copy_length,
                   infile, filepos, bitarr, window_buffer, lookahead_buffer,
                   lookahead_size, match, tokens, compressed, outFile, err>>

\* lines 280-299: one pass of the while loop
DecodeIteration ==
    /\ pc = "decoding"
    /\ LoopCondition(dbitarr)
    /\ \E n \in {DecodePass([bits |-> dbitarr, out |-> outBuffer,
                            counter |-> counter])} :
          /\ dbitarr' = n.bits
          /\ outBuffer' = n.out
          /\ counter' = n.counter
    /\ UNCHANGED <<self_lookahead_size, self_window_size, self_max_copy_length,
                   pc, infile, filepos, bitarr, window_buffer, lookahead_buffer,
                   lookahead_size, match, tokens, compressed, outFile, err>>

\* lines 301-302: the loop is over, the output is written as text, or
\* outBuffer.decode('utf-8') raises and the opened file stays empty
DecodeClose ==
    /\ pc = "decoding"
    /\ ~LoopCondition(dbitarr)
    /\ IF ValidUtf8(outBuffer)
       THEN /\ outFile' = utf8_decode(outBuffer)
            /\ pc' = "decoded"
            /\ err' = err
       ELSE /\ outFile' = <<>>
            /\ pc' = "failed"
            /\ err' = "UnicodeDecodeError"
    /\ UNCHANGED <<self_lookahead_size, self_window_size, self_max_copy_length,
                   infile, filepos, bitarr, window_buffer, lookahead_buffer,
                   lookahead_size, match, tokens, compressed, dbitarr,
                   outBuffer, counter>>

NextDec == DecodeOpen \/ DecodeIteration \/ DecodeClose

SpecDec == InitDec /\ [][NextDec]_vars

(***************************************************************************)
(* longest_substring called on its own, on small windows and strings and   *)
(* on the example of its docstring.                                        *)
(***************************************************************************)
DocWindow == <<97, 97, 98, 98, 99, 99, 97, 98, 99, 97, 98, 99, 100, 101>>
DocString == <<99, 97, 98, 99, 100, 97, 100, 102, 98, 97, 115, 100>>

InitMatch ==
    /\ \E l \in LookaheadSizes, w \in WindowSizes :
          /\ self_lookahead_size = Construct(l, w).lookahead_size
          /\ self_window_size = Construct(l, w).window_size
          /\ self_max_copy_length = Construct(l, w).max_copy_length
    /\ \/ /\ window_buffer \in SeqsUpTo(MatchAlphabet, MaxWin)
          /\ lookahead_buffer \in SeqsUpTo(MatchAlphabet, MaxStr)
       \/ /\ window_buffer = DocWindow
          /\ lookahead_buffer = DocString
    /\ pc = "call"
    /\ infile = <<>>
    /\ filepos = 0
    /\ bitarr = <<>>
    /\ lookahead_size = 0
    /\ match = <<0, 0>>
    /\ tokens = <<>>
    /\ compressed = <<>>
    /\ dbitarr = <<>>
    /\ outBuffer = <<>>
    /\ counter = 0
    /\ outFile = <<>>
    /\ err = ""

MatchCall ==
    /\ pc = "call"
    /\ match' = longest_substring(self_window_size, window_buffer, lookahead_buffer)
    /\ pc' = "returned"
    /\ UNCHANGED <<self_lookahead_size, self_window_size, self_max_copy_length,
                   infile, filepos, bitarr, window_buffer, lookahead_buffer,
                   lookahead_size, tokens, compressed, dbitarr, outBuffer,
                   counter, outFile, err>>

NextMatch == MatchCall

SpecMatch == InitMatch /\ [][NextMatch]_vars

(***************************************************************************)
(* Vocabulary of the properties.                                           *)
(***************************************************************************)
IsLiteral(t) == t[1] = "Literal"
IsPointer(t) == t[1] = "Pointer"
PointersOf(ts) == {ts[i] : i \in {j \in DOMAIN ts : IsPointer(ts[j])}}
NumLiterals(ts) == Cardinality({i \in DOMAIN ts : IsLiteral(ts[i])})
NumPointers(ts) == Cardinality({i \in DOMAIN ts : IsPointer(ts[i])})

\* bits of the token stream before padding: 9 per literal, 13 per pointer
TokenBits(ts) == 9 * NumLiterals(ts) + 13 * NumPointers(ts)

RECURSIVE SumLengths(_)
SumLengths(ps) ==
    IF ps = <<>> THEN 0 ELSE Head(ps)[3] + SumLengths(Tail(ps))

\* input bytes the emitted tokens stand for
BytesCovered(ts) == NumLiterals(ts) + SumLengths(SelectSeq(ts, IsPointer))

\* encode wrote its file (decode may since have run, or raised at its end)
EncodeReturned == pc \in {"done", "decoded"} \/ err = "UnicodeDecodeError"
\* decode's loop has run to its end
DecodeLoopEnded == pc = "decoded" \/ err = "UnicodeDecodeError"

\* longest common prefix of two byte strings, stated without recursion
CommonPrefix(s1, s2) ==
    CHOOSE k \in 0..Min(Len(s1), Len(s2)) :
        /\ \A j \in 1..k : s1[j] = s2[j]
        /\ k = Min(Len(s1), Len(s2)) \/ s1[k + 1] # s2[k + 1]

\* window[i:] for a 0-based offset i
Suffix(window, i) == IF i >= Len(window) THEN <<>> ELSE SubSeq(window, i + 1, Len(window))

RefLength(window, string, i) == CommonPrefix(Suffix(window, i), string)

\* the copy the format asks of a pointer: the last `distance` bytes of the
\* output repeated as a pattern until `length` bytes are produced
PatternCopy(out, distance, length) ==
    [k \in 1..length |-> out[(Len(out) - distance) + ((k - 1) % distance) + 1]]

\* C1: round trip: encode completes on every input and configuration, and
\* decode of the stream it wrote yields exactly the input.
C1_RoundTrip ==
    /\ pc # "failed"
    /\ pc = "decoded" => outBuffer = infile

\* C2: an input shorter than the effective window is encoded, without an
\* error, as exactly one Literal per byte and no Pointer (9 * n bits before
\* padding), and decoding that stream yields the input.
C2_ShortInputOnlyLiterals ==
    Len(infile) < self_window_size =>
        /\ pc # "failed"
        /\ EncodeReturned =>
              /\ tokens = LiteralsOf(infile)
              /\ bitarr = fill(literal_map(<<>>, infile))
              /\ TokenBits(tokens) = 9 * Len(infile)
        /\ pc = "decoded" => outBuffer = infile

\* C3: longest_substring returns (i, n) with n the greatest common-prefix
\* length of window[i:] and the string over the offsets 0..window_size-1 and
\* i the lowest offset that reaches it; (0, 0) when the window or the string
\* is empty or nothing matches; n never exceeds either length.
C3_MatchFinder ==
    pc = "returned" =>
        LET offsets == 0..(self_window_size - 1)
            len(i)  == RefLength(window_buffer, lookahead_buffer, i)
        IN  /\ \A i \in offsets : len(i) <= match[2]
            /\ match[1] \in offsets
            /\ len(match[1]) = match[2]
            /\ \A j \in 0..(match[1] - 1) : len(j) < match[2]
            /\ match[2] = 0 => match = <<0, 0>>
            /\ (window_buffer = <<>> \/ lookahead_buffer = <<>>) => match = <<0, 0>>
            /\ match[2] <= Min(Len(window_buffer), Len(lookahead_buffer))

\* a call whose best length is reached at two offsets, the lower one returned
C3_Witness ==
    /\ pc = "returned"
    /\ match[2] >= 1
    /\ \E j \in (match[1] + 1)..(Len(window_buffer) - 1) :
          RefLength(window_buffer, lookahead_buffer, j) = match[2]

\* C4: on the docstring's window "aabbccabcabcde" and string
\* "cabcdadfbasd" longest_substring returns offset 5, length 4, and no other
\* offset matches longer.
C4_DocExampleAsStated ==
    (pc = "returned" /\ window_buffer = DocWindow /\ lookahead_buffer = DocString) =>
        /\ match = <<5, 4>>
        /\ \A i \in 0..(Len(DocWindow) - 1) :
              RefLength(DocWindow, DocString, i) <= 4

\* C5: a pass of the decoder on a Pointer(distance, length) whose distance
\* reaches into the output appends exactly `length` bytes: the last
\* `distance` bytes of the output repeated as a pattern (for distance >=
\* length, the slice of `length` bytes starting `distance` from the end).
C5_OverlappingCopy ==
    [][(pc = "decoding" /\ LoopCondition(dbitarr) /\ dbitarr[1] = 1) =>
          LET distance == BitsValue(SubSeq(dbitarr, 2, 9), 0)
              length   == BitsValue(SubSeq(dbitarr, 10, 13), 0)
          IN  (distance >= 1 /\ distance <= Len(outBuffer) /\ length >= 1) =>
                  outBuffer' = outBuffer \o PatternCopy(outBuffer, distance, length)]_vars

\* C6: whatever sizes are requested, the effective window is at most 255 and
\* every Pointer the encoder makes fits its fields (1 <= distance <= 255,
\* 1 <= length <= 15); no unrepresentable Pointer is ever constructed.
C6_FieldsRepresentable ==
    /\ self_window_size <= 255
    /\ err # "OverflowError"
    /\ \A t \in PointersOf(tokens) :
          /\ 1 <= t[2] /\ t[2] <= 255
          /\ 1 <= t[3] /\ t[3] <= 15

\* C7: when encode completes, the file is the whole tokens (9 or 13 bits
\* each) followed by 0 to 7 padding bits up to a byte boundary, and the
\* decoder makes exactly one pass per token, leaving only the padding.
C7_PaddingNeverDecoded ==
    EncodeReturned =>
        LET stream == frombytes(compressed)
            pad    == Len(stream) - TokenBits(tokens)
        IN  /\ Len(stream) = 8 * Len(compressed)
            /\ pad \in 0..7
            /\ SubSeq(stream, 1, TokenBits(tokens)) = SubSeq(bitarr, 1, TokenBits(tokens))
            /\ \A k \in (TokenBits(tokens) + 1)..Len(stream) : stream[k] = 0
            /\ DecodeLoopEnded =>
                  /\ counter = Len(tokens)
                  /\ Len(dbitarr) = pad

\* a decoded stream that holds a pointer and ends in padding bits
C7_Witness ==
    /\ pc = "decoded"
    /\ NumPointers(tokens) >= 1
    /\ Len(dbitarr) >= 1
    /\ counter >= 1

\* C8: for lookahead_size >= 1 the encoder loop stops only with the
\* lookahead empty and the input exhausted, every input byte consumed into
\* exactly one token.
C8_StopsOnlyWhenExhausted ==
    (self_lookahead_size >= 1 /\ EncodeReturned) =>
        /\ lookahead_buffer = <<>>
        /\ filepos = Len(infile)
        /\ BytesCovered(tokens) = Len(infile)

\* C9: once the window was seeded with window_size bytes, at every loop
\* iteration it holds exactly the last window_size bytes of the input
\* consumed so far, and every Pointer emitted has
\* length <= distance <= window_size.
C9_WindowAndPointers ==
    (pc \in {"loop", "done"} /\ Len(infile) >= self_window_size) =>
        LET consumed == filepos - Len(lookahead_buffer)
        IN  /\ Len(window_buffer) = self_window_size
            /\ consumed >= self_window_size
            /\ window_buffer = SubSeq(infile, (consumed - self_window_size) + 1, consumed)
            /\ BytesCovered(tokens) = consumed
            /\ \A t \in PointersOf(tokens) :
                  t[3] <= t[2] /\ t[2] <= self_window_size

\* an iteration after a match that ran exactly to the end of the window
C9_Witness ==
    /\ pc = "loop"
    /\ Len(infile) > self_window_size
    /\ \E t \in PointersOf(tokens) : t[2] = t[3]

\* C10: with lookahead_size > max_copy_length and an input longer than the
\* effective window, encode ends without an error having consumed the whole
\* input, and decode of the stream reconstructs the input.
C10_RestrictedRoundTrip ==
    (self_lookahead_size > self_max_copy_length /\ Len(infile) > self_window_size) =>
        /\ pc # "failed"
        /\ EncodeReturned => (lookahead_buffer = <<>> /\ filepos = Len(infile))
        /\ pc = "decoded" => outBuffer = infile

====
